---- MODULE Spec2Model ----
(***************************************************************************)
(* Credential lifecycle of the Huawei Cloud provider of cloud-custodian:   *)
(* CredentialManager (the cached ECS agency triple and its expiry) and     *)
(* HuaweiSessionFactory (DIRECT / assume-role), as in                      *)
(* tools/c7n_huaweicloud/c7n_huaweicloud/provider.py.                      *)
(*                                                                         *)
(* Worker threads share one factory.  Every store to an attribute of the   *)
(* shared CredentialManager is one step of the storing thread, and the     *)
(* loads of one expression are one step, so the unlocked code is explored  *)
(* with its stores interleaved.  Time is in seconds.                       *)
(***************************************************************************)
EXTENDS Integers, FiniteSets, Sequences, TLC

\* ---------------------------------------------------------------- bounds
NumThreads == 2          \* worker threads sharing the factory
MaxCalls   == 3          \* get_credentials calls in one run, all threads
MaxTicks   == 2          \* clock reads in one run that find the time advanced

\* ------------------------------------------------------ program constants
CREDENTIAL_EXPIRY_BUFFER == 900      \* timedelta(minutes=15)
CACHE_TTL                == 86400    \* timedelta(hours=24)
DefaultDuration          == 3600     \* getattr(options, 'duration_seconds', 3600)

Threads == 1..NumThreads

\* ----------------------------------------------------------- Python values
\* One shape for every value so that any two can be compared:
\* k = "None" | "absent" (no such attribute / key) | "empty" (the string "")
\*   | "str" (a non-empty string named f, generation g).
None     == [k |-> "None",   f |-> "", g |-> 0]
Absent   == [k |-> "absent", f |-> "", g |-> 0]
EmptyStr == [k |-> "empty",  f |-> "", g |-> 0]
Str(f, g) == [k |-> "str", f |-> f, g |-> g]

\* Python truthiness of None / "" / a non-empty string.
Truthy(v) == v.k = "str"

\* datetime values: NoTime is None, At(d) a datetime d seconds after the start.
NoTime == <<>>
At(d)  == <<d>>

\* getattr(obj, name, default) and hasattr(obj, name).
HasAttr(obj, name) == obj[name] # Absent
GetAttr(obj, name, default) == IF HasAttr(obj, name) THEN obj[name] ELSE default

\* ------------------------------------------------------------------ inputs
\* The options object and the process environment the factory is built from.
AgencyVals == {Absent, None, EmptyStr, Str("agency_urn", 0)}
KeyVals(f) == {Absent, None, Str(f, 0)}
EnvVals(f) == {None, Str(f, 0)}

AllConfigs ==
    [agency_urn : AgencyVals,
     access_key_id : KeyVals("options.access_key_id"),
     secret_access_key : KeyVals("options.secret_access_key"),
     region : {Absent, Str("region", 0)},
     duration_seconds : {Absent}]

AllEnvs ==
    [HUAWEI_ACCESS_KEY_ID : EnvVals("env.HUAWEI_ACCESS_KEY_ID"),
     HUAWEI_SECRET_ACCESS_KEY : EnvVals("env.HUAWEI_SECRET_ACCESS_KEY")]

\* Inputs explored.  With an agency_urn the keys do not influence the
\* assume-role path: they are taken both absent (with a region) or both set
\* (without a region), the environment empty.  Without an agency_urn the
\* region is not read.
Inputs ==
    {in \in [options : AllConfigs, env : AllEnvs] :
        IF Truthy(in.options.agency_urn)
        THEN /\ in.env.HUAWEI_ACCESS_KEY_ID = None
             /\ in.env.HUAWEI_SECRET_ACCESS_KEY = None
             /\ \/ /\ in.options.access_key_id = Absent
                   /\ in.options.secret_access_key = Absent
                   /\ in.options.region # Absent
                \/ /\ Truthy(in.options.access_key_id)
                   /\ Truthy(in.options.secret_access_key)
                   /\ in.options.region = Absent
        ELSE in.options.region # Absent}

\* os.getenv(name): None when the variable is not set.
GetEnv(e, name) == e[name]


\* ------------------------------------------------------------------- state
VARIABLES
    options, env,            \* the inputs of the constructor
    built,                   \* "no" | "ok" | "failed": HuaweiSessionFactory(options)
    use_assume, ak, sk,      \* HuaweiSessionFactory attributes
    ctor_error,              \* what the constructor raised
    printed,                 \* what the constructor wrote to standard output
    ecs_ak, ecs_sk, ecs_token, expiry_time,   \* CredentialManager attributes
    now, ticks,              \* the clock as last read, and how often it had advanced
    calls, fetches, posts,   \* get_credentials calls, metadata GETs, exchange POSTs
    frame,                   \* thread: the frame of its get_credentials call
    primed,                  \* the last refresh that completed with no other under way
    lost                     \* the last GET that got no answer or a non-2xx one, 0 if none

factoryVars == <<options, env, built, use_assume, ak, sk, ctor_error, printed>>
cacheVars   == <<ecs_ak, ecs_sk, ecs_token, expiry_time>>
clockVars   == <<now, ticks>>
netVars     == <<fetches, posts>>
vars == <<factoryVars, cacheVars, clockVars, calls, netVars, frame, primed, lost>>

\* ----------------------------------------------------- results and errors
NoTuple   == [ak |-> Absent, sk |-> Absent, token |-> Absent]
NoRequest == [token |-> Absent, key |-> Absent, secret |-> Absent,
              region |-> Absent, agency_urn |-> Absent, duration_seconds |-> 0,
              signed |-> FALSE]
NoResponse == [status |-> "none", body |-> "none", gen |-> 0]
NoData     == [gen |-> 0, credential |-> "absent", access |-> Absent,
               secret |-> Absent, securitytoken |-> Absent]

NoResult == [kind |-> "none", type |-> "", msg |-> "", arg |-> "",
             ak |-> Absent, sk |-> Absent, token |-> Absent]

\* An exception of class type with message msg; arg is the text interpolated
\* into the message, "" when the message is a literal.
Raise(type, msg, arg) ==
    [kind |-> "error", type |-> type, msg |-> msg, arg |-> arg,
     ak |-> Absent, sk |-> Absent, token |-> Absent]

\* BasicCredentials(ak, sk)
BasicCredentials(a, s) ==
    [kind |-> "basic", type |-> "", msg |-> "", arg |-> "",
     ak |-> a, sk |-> s, token |-> Absent]

\* GlobalCredentials(ak, sk).with_security_token(token)
GlobalCredentials(a, s, t) ==
    [kind |-> "global", type |-> "", msg |-> "", arg |-> "",
     ak |-> a, sk |-> s, token |-> t]

\* The frame of a thread that is not inside get_credentials.
\*   pc        where the thread stands
\*   t_now     the value datetime.now() returned in _credentials_expired
\*   data      resp.json() of the metadata GET
\*   tup       the tuple get_valid_credentials returned
\*   request   the signed exchange request
\*   xresp     the response of the exchange POST
\*   result    what get_credentials gives the caller
\*   expired   what _credentials_expired returned
\*   refreshed what _refresh_credentials returned
\*   gets      the metadata GETs of this call
\*   cause     why the refresh failed: "network" or "format"
\*   quiet     the refresh (primed.id) the call began after, 0 if none
\*   out       the values the call wrote to standard output
NoFrame ==
    [pc |-> "idle", t_now |-> 0, data |-> NoData, tup |-> NoTuple,
     request |-> NoRequest, xresp |-> NoResponse, result |-> NoResult,
     expired |-> "unknown", refreshed |-> "unknown", gets |-> 0,
     cause |-> "none", quiet |-> 0, out |-> {}]

pc(t) == frame[t].pc

\* No refresh has completed yet.  Otherwise: id, the number of metadata GETs
\* sent when it completed; at, the time it read for the expiry; triple, the
\* cached triple it left.
NotPrimed == [id |-> 0, at |-> 0, triple |-> NoTuple]

\* ------------------------------------------------- HuaweiSessionFactory()
\* Faulty variant: a configured key pair takes precedence over the agency.
UseAssumeUnlessKeys(o) ==
    /\ HasAttr(o, "agency_urn") /\ Truthy(o.agency_urn)
    /\ ~(Truthy(o.access_key_id) /\ Truthy(o.secret_access_key))

\* provider.py:77  hasattr(options, 'agency_urn') and options.agency_urn
UseAssume(o) == HasAttr(o, "agency_urn") /\ Truthy(o.agency_urn)

\* provider.py:80-81  getattr(options, name, os.getenv(NAME))
ConfigAk(o, e) == GetAttr(o, "access_key_id", GetEnv(e, "HUAWEI_ACCESS_KEY_ID"))
ConfigSk(o, e) == GetAttr(o, "secret_access_key", GetEnv(e, "HUAWEI_SECRET_ACCESS_KEY"))

\* Faulty variant: one key alone is taken for a pair.
ConfigRejectedEither(assume, a, s) == ~assume /\ ~(Truthy(a) \/ Truthy(s))

\* provider.py:83  the condition under which the constructor raises
ConfigRejected(assume, a, s) == ~assume /\ ~(Truthy(a) /\ Truthy(s))

\* provider.py:78  print("options:", self.options): an options object
\* (a namespace, a dict-like config) prints as its attributes with their values
PrintOptions(o) == {v \in {o[a] : a \in DOMAIN o} : Truthy(v)}

ConfigError ==
    Raise("ValueError",
          "Either agency_urn (for assume role) or access_key_id/secret_access_key must be configured",
          "")

Init ==
    /\ \E in \in Inputs : options = in.options /\ env = in.env
    /\ built = "no"
    /\ use_assume = FALSE
    /\ ak = Absent
    /\ sk = Absent
    /\ ctor_error = NoResult
    /\ printed = {}
    /\ ecs_ak = None
    /\ ecs_sk = None
    /\ ecs_token = None
    /\ expiry_time = NoTime
    /\ now = 0
    /\ ticks = 0
    /\ calls = 0
    /\ fetches = 0
    /\ posts = 0
    /\ frame = [t \in Threads |-> NoFrame]
    /\ primed = NotPrimed
    /\ lost = 0

\* HuaweiSessionFactory.__init__ with _validate_credentials_config
Construct ==
    /\ built = "no"
    /\ use_assume' = UseAssume(options)
    /\ ak' = ConfigAk(options, env)
    /\ sk' = ConfigSk(options, env)
    /\ printed' = PrintOptions(options)
    /\ IF ConfigRejected(use_assume', ak', sk')
       THEN built' = "failed" /\ ctor_error' = ConfigError
       ELSE built' = "ok" /\ ctor_error' = NoResult
    /\ UNCHANGED <<options, env, cacheVars, clockVars, calls, netVars, frame, primed, lost>>

\* datetime.now(): the clock is seen only when it is read, so it advances
\* there, by the time d that passed since it was last read.
Elapsed == {0, 1, CACHE_TTL - CREDENTIAL_EXPIRY_BUFFER - 1}

ClockRead(d) ==
    /\ d # 0 => ticks < MaxTicks
    /\ now' = now + d
    /\ ticks' = IF d = 0 THEN ticks ELSE ticks + 1

\* ------------------------------------------- HuaweiSessionFactory.get_credentials
\* Faulty variant: the assume-role branch is taken whatever the mode.
TakesAssumeBranchAlways(assume) == TRUE

\* provider.py:89  the branch get_credentials takes
TakesAssumeBranch(assume) == assume

InRefresh(p) == p \in {"fetching", "st_ak", "st_sk", "st_tok", "st_exp"}

\* get_credentials is entered by thread t.  DIRECT: BasicCredentials(ak, sk)
\* is what the caller will get.  Otherwise _get_assumed_credentials starts
\* with credential_manager.get_valid_credentials().
Call(t) ==
    /\ built = "ok"
    /\ pc(t) = "idle"
    /\ calls < MaxCalls
    /\ calls' = calls + 1
    /\ IF TakesAssumeBranch(use_assume)
       THEN frame' = [frame EXCEPT ![t] =
                        [NoFrame EXCEPT !.pc = "chk_keys", !.quiet = primed.id]]
       ELSE frame' = [frame EXCEPT ![t] =
                        [NoFrame EXCEPT !.pc = "done",
                                        !.result = BasicCredentials(ak, sk)]]
    /\ UNCHANGED <<factoryVars, cacheVars, clockVars, netVars, primed, lost>>

\* The caller has the result; the frame of the call is gone.
Finish(t) ==
    /\ pc(t) = "done"
    /\ frame' = [frame EXCEPT ![t] = NoFrame]
    /\ UNCHANGED <<factoryVars, cacheVars, clockVars, calls, netVars, primed, lost>>

\* ------------------------------------ CredentialManager._credentials_expired
\* _credentials_expired returns True, so get_valid_credentials calls
\* _refresh_credentials, which sends the GET numbered fetches + 1
\* (provider.py:31-32, 45).
Stale(t) ==
    /\ fetches' = fetches + 1
    /\ frame' = [frame EXCEPT ![t] =
                   [@ EXCEPT !.expired = "yes", !.pc = "fetching",
                             !.gets = @ + 1,
                             !.data = [NoData EXCEPT !.gen = fetches']]]
    /\ UNCHANGED <<posts, primed, lost>>

\* _credentials_expired goes on to its next operand.
NotYetStale(t, next) ==
    /\ frame' = [frame EXCEPT ![t].pc = next]
    /\ UNCHANGED <<netVars, primed, lost>>

\* provider.py:38  not all([self.ecs_ak, self.ecs_sk, self.ecs_token])
Incomplete(a, k, tok) == ~(Truthy(a) /\ Truthy(k) /\ Truthy(tok))

LoadKeys(t) ==
    /\ pc(t) = "chk_keys"
    /\ IF Incomplete(ecs_ak, ecs_sk, ecs_token)
       THEN Stale(t)
       ELSE NotYetStale(t, "chk_exp")
    /\ UNCHANGED <<factoryVars, cacheVars, clockVars, calls>>

\* provider.py:39-40  not self.expiry_time, and if it is set datetime.now()
ReadClock(t) ==
    /\ pc(t) = "chk_exp"
    /\ IF expiry_time = NoTime
       THEN Stale(t) /\ UNCHANGED clockVars
       ELSE /\ \E d \in Elapsed : ClockRead(d)
            /\ frame' = [frame EXCEPT ![t] =
                           [@ EXCEPT !.t_now = now', !.pc = "chk_cmp"]]
            /\ UNCHANGED <<netVars, primed, lost>>
    /\ UNCHANGED <<factoryVars, cacheVars, calls>>

\* Faulty variant: > in place of >=.
PastBufferStrict(n, exp) == n + CREDENTIAL_EXPIRY_BUFFER > exp[1]

\* provider.py:40  <now> + CREDENTIAL_EXPIRY_BUFFER >= self.expiry_time
PastBuffer(n, exp) == n + CREDENTIAL_EXPIRY_BUFFER >= exp[1]

CompareExpiry(t) ==
    /\ pc(t) = "chk_cmp"
    /\ IF PastBuffer(frame[t].t_now, expiry_time)
       THEN Stale(t)
       ELSE /\ frame' = [frame EXCEPT ![t] = [@ EXCEPT !.expired = "no", !.pc = "ret"]]
            /\ UNCHANGED <<netVars, primed, lost>>
    /\ UNCHANGED <<factoryVars, cacheVars, clockVars, calls>>


\* ------------------------------------- CredentialManager._refresh_credentials
\* What the metadata endpoint may answer to the GET numbered g.
\* A credential object with every field a non-empty string:
GoodCredential(g) ==
    [gen |-> g, credential |-> "object", access |-> Str("access", g),
     secret |-> Str("secret", g), securitytoken |-> Str("securitytoken", g)]

\* Credential objects with one field that is not a non-empty string: the key
\* is missing (Absent), or its value is null (None), or it is "" (EmptyStr).
DefectiveCredentials(g) ==
    {[GoodCredential(g) EXCEPT !.access = EmptyStr],
     [GoodCredential(g) EXCEPT !.secret = Absent],
     [GoodCredential(g) EXCEPT !.securitytoken = None]}

CredentialObjects(g) == {GoodCredential(g)} \cup DefectiveCredentials(g)

\* The credential object also says when the provider expires the credential
\* (`expires_at`), some lifetime after the GET was answered.  No line of
\* _refresh_credentials reads it (provider.py:49-56), so the lifetime
\* changes no step of the program: one hour, or the 24 hours the code takes
\* for granted.
ProviderLifetimes == {3600, CACHE_TTL}

\* "error": no response (connection error, timeout); "status": a non-2xx
\* status, raise_for_status() raises; "notjson": resp.json() raises;
\* "nocredential": a JSON body without a truthy 'credential'.
MetadataFailures == {"error", "status", "notjson", "nocredential"}

\* The error kinds the endpoint's failures fall into.
FailureCause(o) == IF o \in {"error", "status"} THEN "network" ELSE "format"

RefreshError == Raise("RuntimeError", "Failed to obtain valid ECS agency credentials", "")

\* Faulty variant: after a failed refresh staleness is tested once more.
AfterRefreshRetried(ok) == IF ok THEN "ret" ELSE "chk_keys"

\* Faulty variant: the tuple is returned although the refresh failed.
AfterRefreshIgnored(ok) == "ret"

\* provider.py:31-34  what get_valid_credentials does once
\* _refresh_credentials has returned ok: return the tuple, or raise
AfterRefresh(ok) == IF ok THEN "ret" ELSE "raise"

\* The frame f once _refresh_credentials has returned ok (c: why not).  The
\* RuntimeError of provider.py:33 is logged by _get_assumed_credentials and
\* raised again (provider.py:124-126): it is what the caller gets.
RefreshReturns(f, ok, c) ==
    LET g == [f EXCEPT !.refreshed = IF ok THEN "yes" ELSE "no",
                       !.cause = c, !.data = [NoData EXCEPT !.gen = f.data.gen]]
    IN  IF AfterRefresh(ok) = "raise"
        THEN [g EXCEPT !.pc = "done", !.result = RefreshError]
        ELSE [g EXCEPT !.pc = AfterRefresh(ok)]

\* Faulty variant: the failure is remembered for a day.
FetchFailsSticky(t) ==
    /\ pc(t) = "fetching"
    /\ \E o \in MetadataFailures :
          /\ frame' = [frame EXCEPT ![t] = RefreshReturns(@, FALSE, FailureCause(o))]
          /\ lost' = IF FailureCause(o) = "network" THEN frame[t].data.gen ELSE lost
    /\ expiry_time' = At(now + CACHE_TTL)
    /\ UNCHANGED <<factoryVars, ecs_ak, ecs_sk, ecs_token, clockVars, calls,
                   netVars, primed>>

\* provider.py:45-51, 59-66  the GET fails, or its body has no credential
FetchFails(t) ==
    /\ pc(t) = "fetching"
    /\ \E o \in MetadataFailures :
          /\ frame' = [frame EXCEPT ![t] = RefreshReturns(@, FALSE, FailureCause(o))]
          /\ lost' = IF FailureCause(o) = "network" THEN frame[t].data.gen ELSE lost
    /\ UNCHANGED <<factoryVars, cacheVars, clockVars, calls, netVars, primed>>

\* provider.py:45-49  the GET answers with a credential object
FetchAnswers(t) ==
    /\ pc(t) = "fetching"
    /\ \E d \in CredentialObjects(frame[t].data.gen) :
          frame' = [frame EXCEPT ![t] = [@ EXCEPT !.data = d, !.pc = "st_ak"]]
    /\ UNCHANGED <<factoryVars, cacheVars, clockVars, calls, netVars, primed, lost>>

\* data['credential'][f] raises KeyError when the key is missing
\* (provider.py:61-62, 66).
KeyMissing(d, f) == d[f] = Absent

\* provider.py:53  self.ecs_ak = data['credential']['access']
StoreAk(t) ==
    /\ pc(t) = "st_ak"
    /\ IF KeyMissing(frame[t].data, "access")
       THEN /\ frame' = [frame EXCEPT ![t] = RefreshReturns(@, FALSE, "format")]
            /\ UNCHANGED ecs_ak
       ELSE /\ ecs_ak' = frame[t].data.access
            /\ frame' = [frame EXCEPT ![t].pc = "st_sk"]
    /\ UNCHANGED <<factoryVars, ecs_sk, ecs_token, expiry_time, clockVars, calls,
                   netVars, primed, lost>>

\* provider.py:54  self.ecs_sk = data['credential']['secret']
StoreSk(t) ==
    /\ pc(t) = "st_sk"
    /\ IF KeyMissing(frame[t].data, "secret")
       THEN /\ frame' = [frame EXCEPT ![t] = RefreshReturns(@, FALSE, "format")]
            /\ UNCHANGED ecs_sk
       ELSE /\ ecs_sk' = frame[t].data.secret
            /\ frame' = [frame EXCEPT ![t].pc = "st_tok"]
    /\ UNCHANGED <<factoryVars, ecs_ak, ecs_token, expiry_time, clockVars, calls,
                   netVars, primed, lost>>

\* provider.py:55  self.ecs_token = data['credential']['securitytoken']
StoreToken(t) ==
    /\ pc(t) = "st_tok"
    /\ IF KeyMissing(frame[t].data, "securitytoken")
       THEN /\ frame' = [frame EXCEPT ![t] = RefreshReturns(@, FALSE, "format")]
            /\ UNCHANGED ecs_token
       ELSE /\ ecs_token' = frame[t].data.securitytoken
            /\ frame' = [frame EXCEPT ![t].pc = "st_exp"]
    /\ UNCHANGED <<factoryVars, ecs_ak, ecs_sk, expiry_time, clockVars, calls,
                   netVars, primed, lost>>

\* Faulty variant: the expiry is the time of the refresh.
NewExpiryNow(n) == At(n)

\* provider.py:56  datetime.now() + timedelta(hours=24)
NewExpiry(n) == At(n + CACHE_TTL)

\* provider.py:56-57  self.expiry_time = ...; return True
StoreExpiry(t) ==
    /\ pc(t) = "st_exp"
    /\ \E d \in Elapsed : ClockRead(d)
    /\ expiry_time' = NewExpiry(now')
    /\ frame' = [frame EXCEPT ![t] = RefreshReturns(@, TRUE, "none")]
    /\ primed' = IF \A u \in Threads \ {t} : ~InRefresh(pc(u))
                 THEN [id |-> fetches, at |-> now',
                       triple |-> [ak |-> ecs_ak, sk |-> ecs_sk, token |-> ecs_token]]
                 ELSE primed
    /\ UNCHANGED <<factoryVars, ecs_ak, ecs_sk, ecs_token, calls, netVars, lost>>

\* ------------------------------ HuaweiSessionFactory._get_assumed_credentials
\* provider.py:34  return self.ecs_ak, self.ecs_sk, self.ecs_token
ReturnedTuple == [ak |-> ecs_ak, sk |-> ecs_sk, token |-> ecs_token]

\* signer.Signer().Sign(request): adds the signature computed from Key and
\* Secret; fails only for an empty signing key.
SigningFails(key, secret) == ~Truthy(key) \/ ~Truthy(secret)

\* Faulty variant: Key and Secret of the signer exchanged.
SignedRequestSwapped(tp, o) ==
    [token |-> tp.token, key |-> tp.sk, secret |-> tp.ak,
     region |-> o.region, agency_urn |-> o.agency_urn,
     duration_seconds |-> IF HasAttr(o, "duration_seconds")
                          THEN o.duration_seconds.g ELSE DefaultDuration,
     signed |-> TRUE]

\* provider.py:99-112  the request built from the tuple and the options, signed
SignedRequest(tp, o) ==
    [token |-> tp.token, key |-> tp.ak, secret |-> tp.sk,
     region |-> o.region, agency_urn |-> o.agency_urn,
     duration_seconds |-> IF HasAttr(o, "duration_seconds")
                          THEN o.duration_seconds.g ELSE DefaultDuration,
     signed |-> TRUE]

\* provider.py:102  print("sig:", sig.__dict__): Key and Secret
PrintSig(tp) == {tp.ak, tp.sk}

\* provider.py:111  print("req:", request.__dict__): the headers with
\* X-Security-Token, the body with agency_urn
PrintReq(tp, o) == {tp.token, o.agency_urn}

\* What the exchange endpoint may answer to the POST numbered h.
ExchangeStatuses == {"403", "500"}
ExchangeBodies   == {"good", "nocredentials", "missingfield"}
ExchangeAnswers(h) ==
    {[status |-> "error", body |-> "none", gen |-> h]} \cup
    {[status |-> st, body |-> "none", gen |-> h] : st \in ExchangeStatuses} \cup
    {[status |-> "200", body |-> b, gen |-> h] : b \in ExchangeBodies}

\* Faulty variant: the credential of the first exchange is handed out again.
ParseAssumeResponseCached(r) ==
    CASE r.body = "nocredentials" ->
             Raise("ValueError", "No credentials in assume role response", "")
      [] r.body = "missingfield" -> Raise("KeyError", "security_token", "")
      [] OTHER -> GlobalCredentials(Str("access_key_id", 1),
                                    Str("secret_access_key", 1),
                                    Str("security_token", 1))

\* provider.py:129-137  _parse_assume_response(resp.json())
ParseAssumeResponse(r) ==
    CASE r.body = "nocredentials" ->
             Raise("ValueError", "No credentials in assume role response", "")
      [] r.body = "missingfield" -> Raise("KeyError", "security_token", "")
      [] OTHER -> GlobalCredentials(Str("access_key_id", r.gen),
                                    Str("secret_access_key", r.gen),
                                    Str("security_token", r.gen))

\* provider.py:115  print(f"assumed role resp raw: {resp.text}"), reached
\* when raise_for_status() did not raise: the body with the fields it has
PrintResp(r) ==
    IF r.status # "200" THEN {}
    ELSE CASE r.body = "good" ->
                  {Str("access_key_id", r.gen), Str("secret_access_key", r.gen),
                   Str("security_token", r.gen)}
           [] r.body = "missingfield" ->
                  {Str("access_key_id", r.gen), Str("secret_access_key", r.gen)}
           [] OTHER -> {}

\* provider.py:113-126  the outcome of the POST as the caller receives it
AssumeOutcome(r) ==
    IF r.status = "error"
    THEN Raise("ConnectionError", "", "")                       \* except Exception: raise
    ELSE IF r.status # "200"
    THEN Raise("ValueError", "Assume role failed: ", r.status)  \* except HTTPError
    ELSE IF ParseAssumeResponse(r).kind = "error"
    THEN Raise("ValueError", "Invalid assume role response format", "")
    ELSE ParseAssumeResponse(r)

\* provider.py:98, 103  get_valid_credentials returns the tuple, then
\* self.options.region does not exist: AttributeError, raised again by
\* `except Exception`
AssumeNoRegion(t) ==
    /\ pc(t) = "ret"
    /\ ~HasAttr(options, "region")
    /\ frame' = [frame EXCEPT ![t] =
                   [@ EXCEPT !.tup = ReturnedTuple, !.pc = "done",
                             !.out = PrintSig(ReturnedTuple),
                             !.result = Raise("AttributeError",
                                              "object has no attribute 'region'", "")]]
    /\ UNCHANGED <<factoryVars, cacheVars, clockVars, calls, netVars, primed, lost>>

\* provider.py:98, 112  get_valid_credentials returns the tuple, then
\* sig.Sign(request) fails, raised again by `except Exception`
AssumeUnsigned(t) ==
    /\ pc(t) = "ret"
    /\ HasAttr(options, "region")
    /\ SigningFails(ecs_ak, ecs_sk)
    /\ frame' = [frame EXCEPT ![t] =
                   [@ EXCEPT !.tup = ReturnedTuple, !.pc = "done",
                             !.out = PrintSig(ReturnedTuple) \cup
                                     PrintReq(ReturnedTuple, options),
                             !.result = Raise("SigningError", "", "")]]
    /\ UNCHANGED <<factoryVars, cacheVars, clockVars, calls, netVars, primed, lost>>

\* provider.py:98-126  get_valid_credentials returns the tuple; the request
\* is built, signed and posted, the answer parsed
AssumePost(t) ==
    /\ pc(t) = "ret"
    /\ HasAttr(options, "region")
    /\ ~SigningFails(ecs_ak, ecs_sk)
    /\ posts' = posts + 1
    /\ \E r \in ExchangeAnswers(posts') :
          frame' = [frame EXCEPT ![t] =
                      [@ EXCEPT !.tup = ReturnedTuple, !.pc = "done",
                                !.request = SignedRequest(ReturnedTuple, options),
                                !.xresp = r,
                                !.out = PrintSig(ReturnedTuple) \cup
                                        PrintReq(ReturnedTuple, options) \cup
                                        PrintResp(r),
                                !.result = AssumeOutcome(r)]]
    /\ UNCHANGED <<factoryVars, cacheVars, clockVars, calls, fetches, primed, lost>>

\* ------------------------------------------------------------ specifications
Step(t) ==
    \/ LoadKeys(t) \/ ReadClock(t) \/ CompareExpiry(t)
    \/ FetchFails(t) \/ FetchAnswers(t)
    \/ StoreAk(t) \/ StoreSk(t) \/ StoreToken(t) \/ StoreExpiry(t)
    \/ AssumeNoRegion(t) \/ AssumeUnsigned(t) \/ AssumePost(t)
    \/ Finish(t)

\* Worker threads call get_credentials whenever they like.
Next ==
    \/ Construct
    \/ \E t \in Threads : Call(t) \/ Step(t)

Spec == Init /\ [][Next]_vars

\* One caller at a time: a call begins only when no other call is under way.
CallAlone(t) == (\A u \in Threads : pc(u) = "idle") /\ Call(t)

NextSeq ==
    \/ Construct
    \/ \E t \in Threads : CallAlone(t) \/ Step(t)

SpecSeq == Init /\ [][NextSeq]_vars


\* ==================================================================== claims
Complete   == ~Incomplete(ecs_ak, ecs_sk, ecs_token)
Good(tp)   == Truthy(tp.ak) /\ Truthy(tp.sk) /\ Truthy(tp.token)
Returned(t) == frame[t].tup # NoTuple       \* get_valid_credentials returned a tuple
Done(t)     == pc(t) = "done"

\* ------------------------------------------------------------------------ C1
\* One caller at a time.  What _credentials_expired decides on a complete
\* cache with an expiry: the GET has been sent (once) only if
\* now + 15 min >= expiry_time; the call that found the credential fresh
\* read a time with now + 15 min < expiry_time, sent no GET and returns the
\* cached triple.
C1_Decision ==
    \A t \in Threads :
        /\ (pc(t) = "fetching" /\ Complete /\ expiry_time # NoTime)
              => /\ frame[t].t_now + CREDENTIAL_EXPIRY_BUFFER >= expiry_time[1]
                 /\ frame[t].gets = 1
        /\ frame[t].expired = "no"
              => /\ Complete
                 /\ expiry_time # NoTime
                 /\ frame[t].t_now + CREDENTIAL_EXPIRY_BUFFER < expiry_time[1]
                 /\ frame[t].gets = 0
                 /\ Returned(t) => frame[t].tup = ReturnedTuple

\* ... and while such a call runs the cached triple and expiry stay as they are.
C1_CacheKept ==
    (\E t \in Threads : frame[t].expired = "no") => UNCHANGED cacheVars

\* C1: get_valid_credentials on a complete cache fetches if and only if
\* now + 15 minutes >= expiry_time; otherwise it returns the cached triple
\* with no fetch and leaves the cache unchanged.
C1_FetchIffPastBuffer == []C1_Decision /\ [][C1_CacheKept]_vars

\* A call returned the cached triple one second before the buffer is reached.
C1_Witness ==
    \E t \in Threads :
        /\ Done(t) /\ frame[t].expired = "no" /\ fetches = 1
        /\ frame[t].t_now + CREDENTIAL_EXPIRY_BUFFER + 1 = expiry_time[1]

\* ------------------------------------------------------------------------ C2
\* C2: at no time are two metadata GETs in flight at once.
C2_OneFetchInFlight == Cardinality({t \in Threads : pc(t) = "fetching"}) <= 1

\* ------------------------------------------------------------------------ C3
\* C3: after a refresh that left a complete triple, and as long as the clock
\* stays inside the fresh window of that refresh, no further GET is sent
\* however many calls run concurrently, and every call begun after the
\* refresh returns the triple it left.
C3_NoFetchStorm ==
    (/\ primed.id > 0
     /\ Good(primed.triple)
     /\ now + CREDENTIAL_EXPIRY_BUFFER < primed.at + CACHE_TTL)
    => /\ fetches = primed.id
       /\ \A t \in Threads :
             (frame[t].quiet = primed.id /\ Returned(t))
                => frame[t].tup = primed.triple /\ frame[t].gets = 0

\* One GET in all, and every thread has a call, begun after it, that returned
\* the triple of that GET.
C3_Witness ==
    /\ primed.id = 1 /\ fetches = 1
    /\ primed.triple = [ak |-> Str("access", 1), sk |-> Str("secret", 1),
                        token |-> Str("securitytoken", 1)]
    /\ \A t \in Threads :
          Done(t) /\ frame[t].quiet = 1 /\ frame[t].tup = primed.triple

\* ------------------------------------------------------------------------ C4
OptionAgency == Truthy(options.agency_urn)

\* C4: a factory built without agency_urn answers every get_credentials call
\* with BasicCredentials of the one key pair taken at construction; no GET,
\* no POST, and the CredentialManager stays as constructed.
C4_DirectIsStatic ==
    (built = "ok" /\ ~OptionAgency)
    => /\ fetches = 0 /\ posts = 0
       /\ ecs_ak = None /\ ecs_sk = None /\ ecs_token = None
       /\ expiry_time = NoTime
       /\ Truthy(ConfigAk(options, env)) /\ Truthy(ConfigSk(options, env))
       /\ \A t \in Threads :
             /\ pc(t) \in {"idle", "done"}
             /\ Done(t) => frame[t].result =
                              BasicCredentials(ConfigAk(options, env),
                                               ConfigSk(options, env))

\* Every thread holds the result of a DIRECT call, the last of MaxCalls calls.
C4_Witness ==
    /\ built = "ok" /\ ~OptionAgency /\ calls = MaxCalls
    /\ \A t \in Threads : Done(t) /\ frame[t].result.kind = "basic"

\* ------------------------------------------------------------------------ C5
\* C5: an assume-role call whose refresh succeeded and whose exchange was
\* answered 200 with all three fields returns GlobalCredentials of exactly
\* those fields; the request carried the securitytoken of the metadata
\* answer as X-Security-Token and was signed with its access and secret.
C5_HappyPath ==
    \A t \in Threads :
        (/\ Done(t) /\ frame[t].refreshed = "yes"
         /\ frame[t].xresp.status = "200" /\ frame[t].xresp.body = "good")
        => /\ frame[t].result =
                 [NoResult EXCEPT !.kind = "global",
                      !.ak = Str("access_key_id", frame[t].xresp.gen),
                      !.sk = Str("secret_access_key", frame[t].xresp.gen),
                      !.token = Str("security_token", frame[t].xresp.gen)]
           /\ frame[t].request.signed
           /\ \E d \in CredentialObjects(frame[t].data.gen) :
                 /\ frame[t].request.token = d.securitytoken
                 /\ frame[t].request.key = d.access
                 /\ frame[t].request.secret = d.secret

\* A call fetched the second metadata answer, complete, and exchanged it.
C5_Witness ==
    \E t \in Threads :
        /\ Done(t) /\ frame[t].refreshed = "yes" /\ frame[t].data.gen = 2
        /\ frame[t].result.kind = "global"
        /\ frame[t].request.token = Str("securitytoken", 2)
        /\ frame[t].request.key = Str("access", 2)

\* ------------------------------------------------------------------------ C6
KeyPairConfigured ==
    /\ Truthy(options.access_key_id) \/ Truthy(env.HUAWEI_ACCESS_KEY_ID)
    /\ Truthy(options.secret_access_key) \/ Truthy(env.HUAWEI_SECRET_ACCESS_KEY)

\* C6: with neither a truthy agency_urn nor a key pair the constructor
\* raises the configuration ValueError; no GET, no POST, and no call of
\* get_credentials ever begins.
C6_NoFactory ==
    (built # "no" /\ ~OptionAgency /\ ~KeyPairConfigured)
    => /\ built = "failed"
       /\ ctor_error = ConfigError
       /\ fetches = 0 /\ posts = 0 /\ calls = 0
       /\ \A t \in Threads : frame[t] = NoFrame

\* The constructor has raised for options holding the access key only.
C6_Witness ==
    /\ built = "failed" /\ ctor_error = ConfigError
    /\ ~OptionAgency /\ ~KeyPairConfigured
    /\ Truthy(options.access_key_id)

\* ------------------------------------------------------------------------ C7
\* C7: a call whose refresh failed raises RuntimeError and returns no
\* triple; a triple is returned only by a call that found the cache fresh
\* or whose own refresh succeeded.
C7_NoStaleServed ==
    \A t \in Threads :
        /\ frame[t].refreshed = "no"
              => Done(t) /\ frame[t].result = RefreshError /\ ~Returned(t)
        /\ Returned(t)
              => frame[t].expired = "no" \/ frame[t].refreshed = "yes"

\* A call failed to refresh while an earlier, complete triple sat in the cache.
C7_Witness ==
    \E t \in Threads :
        /\ Done(t) /\ frame[t].refreshed = "no" /\ frame[t].expired = "yes"
        /\ Complete /\ expiry_time # NoTime /\ fetches >= 2

\* ------------------------------------------------------------------------ C8
ErrorKind(r) == <<r.type, r.msg>>

\* C8: the error of a call whose metadata answer lacked `credential` (or a
\* field of it) differs in kind from the error of a call whose GET failed,
\* and a 200 exchange answer without `credentials` gives the
\* malformed-response ValueError.
C8_KindsDistinct ==
    \A t, u \in Threads :
        /\ (/\ Done(t) /\ frame[t].cause = "format"
            /\ Done(u) /\ frame[u].cause = "network")
              => ErrorKind(frame[t].result) # ErrorKind(frame[u].result)
        /\ (Done(t) /\ frame[t].xresp.body = "nocredentials")
              => frame[t].result =
                    Raise("ValueError", "Invalid assume role response format", "")

\* ------------------------------------------------------------------------ C9
\* C9: a non-2xx exchange answer gives an error carrying the status, of a
\* type other than that of the error for a malformed 200 answer.
C9_StatusError ==
    \A t \in Threads :
        (Done(t) /\ frame[t].xresp.status \in ExchangeStatuses)
        => /\ frame[t].result.kind = "error"
           /\ frame[t].result.arg = frame[t].xresp.status
           /\ \A b \in ExchangeBodies \ {"good"} :
                 frame[t].result.type #
                    AssumeOutcome([status |-> "200", body |-> b, gen |-> 0]).type

\* ----------------------------------------------------------------------- C10
\* C10: every triple get_valid_credentials returns has a non-empty access
\* key, secret key and token.
C10_TriplePopulated == \A t \in Threads : Returned(t) => Good(frame[t].tup)

\* ----------------------------------------------------------------------- C11
\* A call has sent at most one GET; the call whose refresh failed is over,
\* has built and posted no request, and gives the caller the RuntimeError
\* of get_valid_credentials.
C11_FailsAtOnce ==
    \A t \in Threads :
        /\ frame[t].gets <= 1
        /\ frame[t].refreshed = "no"
              => /\ Done(t)
                 /\ frame[t].request = NoRequest
                 /\ frame[t].xresp = NoResponse
                 /\ frame[t].result =
                       Raise("RuntimeError",
                             "Failed to obtain valid ECS agency credentials", "")

\* A step sends at most one request: a GET is the first of its call, a POST
\* is the first of its call and ends the call.
C11_OneRequest ==
    /\ fetches' # fetches
          => /\ fetches' = fetches + 1 /\ posts' = posts
             /\ \E t \in Threads : frame[t].gets = 0 /\ frame'[t].gets = 1
    /\ posts' # posts
          => /\ posts' = posts + 1 /\ fetches' = fetches
             /\ \E t \in Threads :
                   /\ frame[t].xresp = NoResponse /\ ~Done(t)
                   /\ frame'[t].xresp.gen = posts' /\ frame'[t].pc = "done"

\* C11: no retries.  One get_credentials call sends at most one metadata GET
\* and at most one exchange POST; when the refresh fails no POST is sent and
\* the caller receives the error of the instance-credential step.
C11_NoRetry == []C11_FailsAtOnce /\ [][C11_OneRequest]_vars

\* One call failed on its only GET and posted nothing; another fetched once,
\* posted once and got no answer.
C11_Witness ==
    \E t, u \in Threads :
        /\ Done(t) /\ frame[t].refreshed = "no" /\ frame[t].gets = 1
        /\ Done(u) /\ frame[u].gets = 1 /\ frame[u].xresp.status = "error"
        /\ fetches = 2 /\ posts = 1

\* ----------------------------------------------------------------------- C12
\* An option is unset when the options object has no such attribute or its
\* value is None.
Unset(v) == v = Absent \/ v = None

\* C12: an unset access_key_id / secret_access_key option is replaced by the
\* environment variable when that is set; with both keys found this way and
\* no agency_urn the factory is built and every call returns
\* BasicCredentials of the environment pair.
C12_EnvFallback ==
    built # "no"
    => /\ (Unset(options.access_key_id) /\ Truthy(env.HUAWEI_ACCESS_KEY_ID))
             => ak = env.HUAWEI_ACCESS_KEY_ID
       /\ (Unset(options.secret_access_key) /\ Truthy(env.HUAWEI_SECRET_ACCESS_KEY))
             => sk = env.HUAWEI_SECRET_ACCESS_KEY
       /\ (/\ ~OptionAgency
           /\ Unset(options.access_key_id) /\ Truthy(env.HUAWEI_ACCESS_KEY_ID)
           /\ Unset(options.secret_access_key) /\ Truthy(env.HUAWEI_SECRET_ACCESS_KEY))
             => /\ built = "ok"
                /\ \A t \in Threads :
                      Done(t) => frame[t].result =
                                    BasicCredentials(env.HUAWEI_ACCESS_KEY_ID,
                                                     env.HUAWEI_SECRET_ACCESS_KEY)

\* ----------------------------------------------------------------------- C13
\* C13: with an agency_urn and no region no factory is built: the
\* constructor fails, so no call begins, none fails later on the missing
\* region and no exchange request is sent.
C13_RegionAtConstruction ==
    (OptionAgency /\ ~Truthy(options.region))
    => /\ built # "ok"
       /\ calls = 0 /\ posts = 0
       /\ \A t \in Threads : frame[t].result.type # "AttributeError"

\* ----------------------------------------------------------------------- C14
\* The clock value of provider.py:56, read after the GET was answered: the
\* credential in the cache was issued then at the latest.
IssuedAtLatest == expiry_time[1] - CACHE_TTL

\* C14: one caller at a time.  Whatever lifetime the provider gave the
\* fetched credential, when get_valid_credentials returns a triple the
\* provider's expiry of it lies in the future.
C14_NotProviderExpired ==
    \A life \in ProviderLifetimes :
        \A t \in Threads :
            (Done(t) /\ Returned(t) /\ expiry_time # NoTime)
                => now < IssuedAtLatest + life

\* ----------------------------------------------------------------------- C15
\* The triple tp is the access, secret and securitytoken of one of the
\* metadata answers given so far.
FromOneResponse(tp) ==
    \E g \in 1..fetches :
        \E d \in CredentialObjects(g) :
            tp = [ak |-> d.access, sk |-> d.secret, token |-> d.securitytoken]

\* C15: under any interleaving every triple get_valid_credentials returns is
\* made of the three fields of one metadata answer.
C15_WholeTriple ==
    \A t \in Threads : Returned(t) => FromOneResponse(frame[t].tup)

\* ----------------------------------------------------------------------- C16
\* The value v is a field of the metadata answer numbered g.
FieldOf(v, g) == v.k = "str" /\ v.g = g

\* C16: one caller at a time.  After _refresh_credentials has returned
\* False the cache is as it was before the refresh.  The fields of an answer
\* enter the cache only through the refresh that received it, so the cache
\* is as before exactly if it holds no field of the answer of the failed
\* refresh.
C16_FailedRefreshKeepsCache ==
    \A t \in Threads :
        frame[t].refreshed = "no"
            => /\ ~FieldOf(ecs_ak, frame[t].data.gen)
               /\ ~FieldOf(ecs_sk, frame[t].data.gen)
               /\ ~FieldOf(ecs_token, frame[t].data.gen)

\* ----------------------------------------------------------------------- C17
\* The call of thread t obtained an instance credential with all three
\* fields, in a factory that has a region to build the URL from.
Exchanges(f) == f.pc = "done" /\ Good(f.tup) /\ Truthy(options.region)

\* Such a call has posted a request signed with the triple it obtained; the
\* response is its own, shared with no other call, and a complete response
\* is what it returns.
C17_OwnResponse ==
    \A t \in Threads :
        Exchanges(frame[t])
        => /\ frame[t].request.signed
           /\ frame[t].request.key = frame[t].tup.ak
           /\ frame[t].request.secret = frame[t].tup.sk
           /\ frame[t].request.token = frame[t].tup.token
           /\ frame[t].xresp.gen \in 1..posts
           /\ \A u \in Threads \ {t} : frame[u].xresp.gen # frame[t].xresp.gen
           /\ (frame[t].xresp.status = "200" /\ frame[t].xresp.body = "good")
                 => frame[t].result =
                       GlobalCredentials(Str("access_key_id", frame[t].xresp.gen),
                                         Str("secret_access_key", frame[t].xresp.gen),
                                         Str("security_token", frame[t].xresp.gen))

\* The step that ends such a call sends a POST, the newest one.
C17_NewPost ==
    \A t \in Threads :
        (~Done(t) /\ Exchanges(frame'[t]))
            => posts' = posts + 1 /\ frame'[t].xresp.gen = posts'

\* C17: the delegated credential is never cached.  Every call that obtains
\* a complete instance credential sends one new exchange POST, signed with
\* that credential, and returns what is parsed from its own response.
C17_NeverCached == []C17_OwnResponse /\ [][C17_NewPost]_vars

\* One call got the credential of the first exchange; another, served from
\* the cached instance credential, has exchanged again and got a new one.
C17_Witness ==
    \E t, u \in Threads :
        /\ Done(u) /\ frame[u].result.kind = "global" /\ frame[u].xresp.gen = 1
        /\ Done(t) /\ frame[t].expired = "no" /\ frame[t].xresp.gen = 2
        /\ frame[t].result.kind = "global"
        /\ frame[t].result.token = Str("security_token", 2)
        /\ fetches = 1 /\ posts = 2

\* ----------------------------------------------------------------------- C18
\* In a built factory use_assume says whether agency_urn was truthy, and
\* every call under way or finished is on the branch of that mode: with an
\* agency_urn never a BasicCredentials result, without one nothing else.
C18_ModeOfAgency ==
    built = "ok"
    => /\ use_assume <=> OptionAgency
       /\ \A t \in Threads :
             pc(t) # "idle"
                => IF OptionAgency
                   THEN frame[t].result.kind \in {"none", "error", "global"}
                   ELSE Done(t) /\ frame[t].result.kind = "basic"

\* Once the constructor has run, no step changes the factory.
C18_Fixed == built # "no" => UNCHANGED factoryVars

\* C18: the mode is decided at construction, ASSUME_ROLE exactly when
\* agency_urn is truthy whether or not a key pair is configured too, and
\* every later call takes the branch of that mode.
C18_ModeFixed == []C18_ModeOfAgency /\ [][C18_Fixed]_vars

\* Agency and key pair both configured: the last of MaxCalls calls has gone
\* to the metadata endpoint, as an earlier call did.
C18_Witness ==
    /\ OptionAgency
    /\ Truthy(options.access_key_id) /\ Truthy(options.secret_access_key)
    /\ calls = MaxCalls /\ fetches >= 2
    /\ \E t \in Threads : Done(t) /\ frame[t].gets = 1 /\ frame[t].data.gen = fetches

\* ----------------------------------------------------------------------- C19
\* _credentials_expired() would return True at the time last read.
StaleNow ==
    \/ ~Complete
    \/ expiry_time = NoTime
    \/ now + CREDENTIAL_EXPIRY_BUFFER >= expiry_time[1]

\* While the GET sent last is one the endpoint did not answer, the cache is
\* stale and no call has found it fresh; a call whose refresh returned True
\* gets the triple.
C19_StillStale ==
    /\ (lost > 0 /\ lost = fetches)
          => StaleNow /\ \A t \in Threads : frame[t].expired # "no"
    /\ \A t \in Threads :
          (Done(t) /\ frame[t].refreshed = "yes") => Returned(t)

\* The step in which a GET fails on the network leaves the cache alone, and
\* a refresh that was answered a complete credential does not fail: its
\* last step leaves that credential in the cache and returns True.
C19_Recovers ==
    /\ lost' # lost => UNCHANGED cacheVars
    /\ \A t \in Threads :
          (/\ pc(t) \in {"st_ak", "st_sk", "st_tok", "st_exp"}
           /\ frame[t].data = GoodCredential(frame[t].data.gen))
          => /\ frame'[t].refreshed # "no"
             /\ pc(t) = "st_exp"
                   => /\ frame'[t].refreshed = "yes" /\ frame'[t].pc = "ret"
                      /\ ecs_ak' = Str("access", frame[t].data.gen)
                      /\ ecs_sk' = Str("secret", frame[t].data.gen)
                      /\ ecs_token' = Str("securitytoken", frame[t].data.gen)

\* C19: one caller at a time.  A metadata GET that failed on the network
\* leaves the cache stale and otherwise as it was, so the next call fetches
\* again, and a fetch that is answered a complete credential succeeds.
C19_NotSticky == []C19_StillStale /\ [][C19_Recovers]_vars

\* The first call's GET failed on the network; the second call fetched
\* again, was answered and got its delegated credential.
C19_Witness ==
    /\ lost = 1 /\ calls = 2 /\ fetches = 2
    /\ \E t \in Threads :
          /\ Done(t) /\ frame[t].refreshed = "yes" /\ frame[t].data.gen = 2
          /\ frame[t].tup = [ak |-> Str("access", 2), sk |-> Str("secret", 2),
                             token |-> Str("securitytoken", 2)]
          /\ frame[t].result.kind = "global"

\* ----------------------------------------------------------------------- C20
\* Everything on standard output: what the constructor and the calls under
\* way or just finished have printed.
Output == printed \cup UNION {frame[t].out : t \in Threads}

\* The secrets at hand: the secret key and token of the instance triples
\* returned, the static secret key, the secret key and token of the
\* delegated credentials returned.
Secrets ==
    {v \in UNION {{frame[t].tup.sk, frame[t].tup.token, frame[t].result.sk,
                   frame[t].result.token} : t \in Threads}
              \cup {sk} : Truthy(v)}

\* C20: nothing the constructor or get_credentials writes to standard
\* output is a secret.
C20_NoSecretPrinted == Output \cap Secrets = {}

====
